---- MODULE Spec2Model ----
(***************************************************************************)
(* Model of aligned_reid/utils/distance.py: the pairwise distance engine,  *)
(* the alignment reducer (shortest_dist), the local-distance aggregator    *)
(* and the chunked matrix evaluator (low_memory_matrix_op).                *)
(*                                                                         *)
(* A numpy array is a record [shape, at]: shape is the tuple of axis       *)
(* lengths, at maps every 0-based index tuple of that shape to its entry.  *)
(* A scalar is the array of shape << >>.                                   *)
(***************************************************************************)
EXTENDS Integers, Sequences, FiniteSets, TLC

\* ------------------------------------------------------------------ bounds
\* Largest number of entries of a cost tensor handed to shortest_dist.
MaxCells == 8
\* Constant-filled cost matrices are filled with a value of 0..MaxFill.
MaxFill == 3
\* Largest number of entries of x and y together, local-distance calls.
MaxTotal == 6
\* Largest number of entries of x and y together, chunked evaluation.
MaxOperands == 5
\* Ranks of the arrays handed to local_dist are drawn from 1..MaxRank.
MaxRank == 4

\* Entries of the generated cost tensors and feature vectors (constant-filled
\* cost matrices take the values 0..MaxFill as well).
EntryValues == {0, 1}

\* ------------------------------------------------------- array primitives
Range(n) == 0 .. (n - 1)

RECURSIVE Size(_)
Size(shape) ==
  IF shape = << >> THEN 1 ELSE shape[1] * Size(Tail(shape))

RECURSIVE Indices(_)
Indices(shape) ==
  IF shape = << >> THEN { << >> }
  ELSE { <<k>> \o rest : k \in Range(shape[1]), rest \in Indices(Tail(shape)) }

MkArray(shape, at) == [shape |-> shape, at |-> at]

\* C-order (row-major) offset of an index tuple, and its inverse.
RECURSIVE Ravel(_, _)
Ravel(idx, shape) ==
  IF shape = << >> THEN 0
  ELSE idx[1] * Size(Tail(shape)) + Ravel(Tail(idx), Tail(shape))

RECURSIVE Unravel(_, _)
Unravel(k, shape) ==
  IF shape = << >> THEN << >>
  ELSE <<k \div Size(Tail(shape))>> \o Unravel(k % Size(Tail(shape)), Tail(shape))

Drop(s, k) == SubSeq(s, k + 1, Len(s))

\* a[i]
Get1(a, i) == MkArray(Drop(a.shape, 1), [e \in Indices(Drop(a.shape, 1)) |-> a.at[<<i>> \o e]])

\* a[i, j]
Get2(a, i, j) == MkArray(Drop(a.shape, 2), [e \in Indices(Drop(a.shape, 2)) |-> a.at[<<i, j>> \o e]])

\* a[i, j] = v
Set2(a, i, j, v) ==
  [a EXCEPT !.at = [idx \in DOMAIN a.at |->
                      IF idx[1] = i /\ idx[2] = j THEN v.at[Drop(idx, 2)]
                      ELSE a.at[idx]]]

\* u + v, elementwise, equal shapes
Add(u, v) == MkArray(u.shape, [e \in Indices(u.shape) |-> u.at[e] + v.at[e]])

SetMin(S) == CHOOSE v \in S : \A w \in S : v <= w

\* np.min(np.stack(arrs, axis=0), axis=0): the minimum is taken across the
\* stacked arrays, separately at every index of their common shape.
MinStackBatchAxis(arrs) ==
  MkArray(arrs[1].shape,
          [e \in Indices(arrs[1].shape) |-> SetMin({arrs[k].at[f] : k \in DOMAIN arrs, f \in DOMAIN arrs[1].at})])

\* A slip that keeps the first stacked array instead of the minimum.
MinStackFirst(arrs) ==
  MkArray(arrs[1].shape, [e \in Indices(arrs[1].shape) |-> arrs[1].at[e]])

MinStack(arrs) ==
  MkArray(arrs[1].shape, [e \in Indices(arrs[1].shape) |-> SetMin({arrs[k].at[e] : k \in DOMAIN arrs})])

\* No array: the value of a result before the call has produced one.
NoArray == [shape |-> <<0>>, at |-> << >>]

zeros_like(a) == MkArray(a.shape, [e \in Indices(a.shape) |-> 0])

\* ----------------------------------------------------------- shortest_dist
\* The accumulator cells the branch taken at (i, j) indexes.
PredecessorsDiagonal(i, j) ==
  IF (i = 0) /\ (j = 0) THEN << >>
  ELSE IF (i = 0) /\ (j > 0) THEN << <<i, j - 1>> >>
  ELSE IF (i > 0) /\ (j = 0) THEN << <<i - 1, j>> >>
  ELSE << <<i - 1, j>>, <<i - 1, j - 1>> >>

Predecessors(i, j) ==
  IF (i = 0) /\ (j = 0) THEN << >>
  ELSE IF (i = 0) /\ (j > 0) THEN << <<i, j - 1>> >>
  ELSE IF (i > 0) /\ (j = 0) THEN << <<i - 1, j>> >>
  ELSE << <<i - 1, j>>, <<i, j - 1>> >>

\* One pass of the loop body: dist[i, j] = ... (all batch slices at once).
FillCellNoAccumulate(dist, dist_mat, i, j) ==
  Set2(dist, i, j, Get2(dist_mat, i, j))

FillCell(dist, dist_mat, i, j) ==
  LET reads == Predecessors(i, j)
      stack == [k \in DOMAIN reads |-> Get2(dist, reads[k][1], reads[k][2])]
  IN  Set2(dist, i, j,
           IF reads = << >> THEN Get2(dist_mat, i, j)
           ELSE Add(MinStack(stack), Get2(dist_mat, i, j)))

\* The two nested loops from cell number k on (cell k is (k div n, k mod n)).
RECURSIVE FillFrom(_, _, _)
FillFrom(dist, dist_mat, k) ==
  LET m == dist_mat.shape[1]
      n == dist_mat.shape[2]
  IN  IF k >= m * n THEN dist
      ELSE FillFrom(FillCell(dist, dist_mat, k \div n, k % n), dist_mat, k + 1)

shortest_dist(dist_mat) ==
  LET m == dist_mat.shape[1]
      n == dist_mat.shape[2]
      dist == FillFrom(zeros_like(dist_mat), dist_mat, 0)
  IN  Get2(dist, m - 1, n - 1)

\* ------------------------------------------------------------ compute_dist
\* np.sum(np.square(a), axis=1): the squared norm of every row of a.
RowSquares(a) ==
  [r \in Range(a.shape[1]) |->
     LET RECURSIVE Acc(_)
         Acc(k) == IF k = 0 THEN 0 ELSE a.at[<<r, k - 1>>] * a.at[<<r, k - 1>>] + Acc(k - 1)
     IN  Acc(a.shape[2])]

\* np.matmul(array1, array2.T)[r, c]
MatmulT(array1, array2, r, c) ==
  LET RECURSIVE Acc(_)
      Acc(k) == IF k = 0 THEN 0
                ELSE array1.at[<<r, k - 1>>] * array2.at[<<c, k - 1>>] + Acc(k - 1)
  IN  Acc(array1.shape[2])

\* compute_dist(array1, array2, 'euclidean').  The distances are square roots
\* of integers: an entry s of the returned array stands for sqrt(s).
compute_dist(array1, array2) ==
  LET square1 == RowSquares(array1)
      square2 == RowSquares(array2)
  IN  MkArray(<<array1.shape[1], array2.shape[1]>>,
        [idx \in Indices(<<array1.shape[1], array2.shape[1]>>) |->
          LET squared_dist ==
                (0 - 2) * MatmulT(array1, array2, idx[1], idx[2])
                  + square1[idx[1]] + square2[idx[2]]
          IN  IF squared_dist < 0 THEN 0 ELSE squared_dist])

\* (exp(e) - 1) / (exp(e) + 1) at e = sqrt(s), in thousandths, s = 0, 1, ...
SquashTable ==
  <<0, 462, 609, 699, 762, 807, 841, 867, 888, 905, 919, 930, 939, 947, 954, 959, 964>>

Squash(eu_dist) == MkArray(eu_dist.shape, [idx \in Indices(eu_dist.shape) |-> SquashTable[eu_dist.at[idx] + 1]])

\* a[np.newaxis]
NewAxis(a) == MkArray(<<1>> \o a.shape, [idx \in Indices(<<1>> \o a.shape) |-> a.at[Tail(idx)]])

\* a.reshape(newshape), C order
Reshape(a, newshape) ==
  MkArray(newshape, [idx \in Indices(newshape) |-> a.at[Unravel(Ravel(idx, newshape), a.shape)]])

\* a.transpose(axes): axis k of the result is axis axes[k] of a (0-based)
Transpose(a, axes) ==
  MkArray([k \in DOMAIN axes |-> a.shape[axes[k] + 1]],
          [idx \in Indices([k \in DOMAIN axes |-> a.shape[axes[k] + 1]]) |-> a.at[[p \in DOMAIN axes |->
                               idx[CHOOSE k \in DOMAIN axes : axes[k] + 1 = p]]]])

\* --------------------------------------------------------- local distances
\* the matrix meta_local_dist hands on: the squashed euclidean distances
LocalCostMatrix(x, y) == Squash(compute_dist(x, y))

meta_local_dist(x, y) ==
  LET dist_mat == LocalCostMatrix(x, y)
  IN  Get1(shortest_dist(NewAxis(dist_mat)), 0)

serial_local_dist(x, y) ==
  MkArray(<<x.shape[1], y.shape[1]>>,
          [idx \in Indices(<<x.shape[1], y.shape[1]>>) |-> meta_local_dist(Get1(x, idx[1]), Get1(y, idx[2])).at[<< >>]])

\* parallel_local_dist up to the transpose: the tensor handed to shortest_dist
PermutedCostsSwappedReshape(x, y) ==
  LET M == x.shape[1]
      m == x.shape[2]
      d == x.shape[3]
      N == y.shape[1]
      n == y.shape[2]
      dist_mat == Squash(compute_dist(Reshape(x, <<M * m, d>>), Reshape(y, <<N * n, d>>)))
  IN  Transpose(Reshape(dist_mat, <<m, M, n, N>>), <<0, 2, 1, 3>>)

PermutedCosts(x, y) ==
  LET M == x.shape[1]
      m == x.shape[2]
      d == x.shape[3]
      N == y.shape[1]
      n == y.shape[2]
      dist_mat == Squash(compute_dist(Reshape(x, <<M * m, d>>), Reshape(y, <<N * n, d>>)))
  IN  Transpose(Reshape(dist_mat, <<M, m, N, n>>), <<1, 3, 0, 2>>)

parallel_local_dist(x, y) == shortest_dist(PermutedCosts(x, y))

Returned(v) == [raised |-> "", value |-> v]
Raised(e) == [raised |-> e, value |-> NoArray]

\* A slip that leaves out the 3-D branch.
local_dist_2d_only(x, y) ==
  IF (Len(x.shape) = 2) /\ (Len(y.shape) = 2) THEN Returned(meta_local_dist(x, y))
  ELSE Raised("NotImplementedError")

local_dist(x, y) ==
  IF (Len(x.shape) = 2) /\ (Len(y.shape) = 2) THEN Returned(meta_local_dist(x, y))
  ELSE IF (Len(x.shape) = 3) /\ (Len(y.shape) = 3) THEN Returned(parallel_local_dist(x, y))
  ELSE Raised("NotImplementedError")

\* ---------------------------------------------------- low_memory_matrix_op
\* a[..., st:end, ...] along `axis`
TakeAxis(a, axis, st, end) ==
  MkArray([a.shape EXCEPT ![axis + 1] = end - st],
          [idx \in Indices([a.shape EXCEPT ![axis + 1] = end - st]) |-> a.at[[idx EXCEPT ![axis + 1] = idx[axis + 1] + st]]])

\* numpy's array_split(ary, Nsections, axis): Ntotal % Nsections parts of
\* Ntotal // Nsections + 1 entries, then parts of Ntotal // Nsections entries;
\* a section count below 1 is refused.
array_split(ary, Nsections, axis) ==
  LET Ntotal == ary.shape[axis + 1]
      Neach_section == Ntotal \div Nsections
      extras == Ntotal % Nsections
      RECURSIVE div_point(_)
      div_point(k) ==
        IF k = 0 THEN 0
        ELSE div_point(k - 1) + (IF k <= extras THEN Neach_section + 1 ELSE Neach_section)
  IN  IF Nsections <= 0 THEN [raised |-> "ValueError", parts |-> << >>]
      ELSE [raised |-> "",
            parts |-> [k \in 1 .. Nsections |->
                         TakeAxis(ary, axis, div_point(k - 1), div_point(k))]]

RECURSIVE SumLengths(_, _, _)
SumLengths(mats, axis, k) ==
  IF k = 0 THEN 0 ELSE mats[k].shape[axis + 1] + SumLengths(mats, axis, k - 1)

\* np.concatenate(mats, axis) of 2-D arrays: the other axis must agree.
concatenate(mats, axis) ==
  LET other == 2 - axis
      total == SumLengths(mats, axis, Len(mats))
      shape == [mats[1].shape EXCEPT ![axis + 1] = total]
      part_of(q) == CHOOSE k \in DOMAIN mats :
                      /\ SumLengths(mats, axis, k - 1) <= q
                      /\ q < SumLengths(mats, axis, k)
  IN  IF \E k \in DOMAIN mats : mats[k].shape[other] # mats[1].shape[other]
        THEN Raised("ValueError")
        ELSE Returned(MkArray(shape,
               [idx \in Indices(shape) |->
                 LET k == part_of(idx[axis + 1])
                 IN  mats[k].at[[idx EXCEPT ![axis + 1] =
                                   idx[axis + 1] - SumLengths(mats, axis, k - 1)]]]))

\* x - x.min(axis=0): every column shifted by its minimum
ShiftByColumnMin(a) ==
  MkArray(a.shape,
          [idx \in Indices(a.shape) |-> a.at[idx] - SetMin({ a.at[<<r, idx[2]>>] : r \in Range(a.shape[1]) })])

\* The matrix functions handed in as `func`:
\*   "compute_dist":     lambda x, y: compute_dist(x, y, 'euclidean')
\*   "min_shifted_dist": lambda x, y: compute_dist(x - x.min(axis=0), y, 'euclidean')
\* matmul refuses operands whose feature dimensions differ, and min refuses
\* an array without rows.
Funcs == {"compute_dist", "min_shifted_dist"}

\* The functions whose entry [i, j] is computed from row i of x and row j of y alone.
PairwiseFuncs == {"compute_dist"}

ApplyFunc(func, a, b) ==
  IF func = "min_shifted_dist" /\ a.shape[1] = 0 THEN Raised("ValueError")
  ELSE IF a.shape[2] # b.shape[2] THEN Raised("ValueError")
  ELSE IF func = "min_shifted_dist" THEN Returned(compute_dist(ShiftByColumnMin(a), b))
  ELSE Returned(compute_dist(a, b))

\* axis_to_concat = 0 if split_x_or_y == 'x' else 1
AxisToConcatSwapped(split_x_or_y) == IF split_x_or_y = "x" THEN 1 ELSE 0

AxisToConcat(split_x_or_y) == IF split_x_or_y = "x" THEN 0 ELSE 1

\* ------------------------------------------------------------------ inputs
RECURSIVE ShapesOf(_, _)
ShapesOf(rank, budget) ==
  IF rank = 0 THEN { << >> }
  ELSE UNION { { <<k>> \o s : s \in ShapesOf(rank - 1, budget \div k) } : k \in 1 .. budget }

ArraysOf(shape, values) ==
  { [shape |-> shape, at |-> f] : f \in [Indices(shape) -> values] }

\* ------------------------------------------------------------------- state
VARIABLES sd_dist_mat, sd_dist, sd_i, sd_j, sd_pc, sd_ret, sd_reads, sd_writes

VARIABLES ld_x, ld_y, ld_call, ld_out, ld_stage

sd_vars == <<sd_dist_mat, sd_dist, sd_i, sd_j, sd_pc, sd_ret, sd_reads, sd_writes>>

VARIABLES lm_x, lm_y, lm_func, lm_split_x_or_y, lm_axis, lm_num_splits,
          lm_pc, lm_parts, lm_i, lm_mat, lm_calls, lm_ret

ld_vars == <<ld_x, ld_y, ld_call, ld_out, ld_stage>>

lm_args == <<lm_x, lm_y, lm_func, lm_split_x_or_y, lm_axis, lm_num_splits>>

lm_vars == <<lm_args, lm_pc, lm_parts, lm_i, lm_mat, lm_calls, lm_ret>>

vars == <<sd_vars, ld_vars, lm_vars>>

LMIdle ==
  /\ lm_x = NoArray /\ lm_y = NoArray /\ lm_func = "" /\ lm_split_x_or_y = ""
  /\ lm_axis = 0 /\ lm_num_splits = 0 /\ lm_pc = "idle" /\ lm_parts = << >>
  /\ lm_i = 0 /\ lm_mat = << >> /\ lm_calls = 0 /\ lm_ret = Returned(NoArray)

SDIdle ==
  /\ sd_dist_mat = NoArray /\ sd_dist = NoArray /\ sd_i = 0 /\ sd_j = 0
  /\ sd_pc = "idle" /\ sd_ret = NoArray /\ sd_reads = << >> /\ sd_writes = << >>

LDIdle ==
  /\ ld_x = NoArray /\ ld_y = NoArray /\ ld_call = "idle"
  /\ ld_out = Returned(NoArray) /\ ld_stage = NoArray

\* ------------------------------------------- shortest_dist, cell by cell
SDInit ==
  /\ sd_dist_mat \in
       UNION { ArraysOf(s, EntryValues) \cup { MkArray(s, [e \in Indices(s) |-> c]) : c \in 0 .. MaxFill } :
                 s \in ShapesOf(2, MaxCells) \cup ShapesOf(3, MaxCells) }
  /\ sd_dist = NoArray
  /\ sd_i = 0
  /\ sd_j = 0
  /\ sd_pc = "call"
  /\ sd_ret = NoArray
  /\ sd_reads = << >>
  /\ sd_writes = << >>
  /\ LDIdle
  /\ LMIdle

\* m, n = dist_mat.shape[:2]; dist = np.zeros_like(dist_mat)
SDEnter ==
  /\ sd_pc = "call"
  /\ sd_dist' = zeros_like(sd_dist_mat)
  /\ sd_i' = 0
  /\ sd_j' = 0
  /\ sd_pc' = "loop"
  /\ UNCHANGED <<sd_dist_mat, sd_ret, sd_reads, sd_writes, ld_vars, lm_vars>>

\* one iteration of `for i in range(m): for j in range(n):`
SDFill ==
  LET m == sd_dist_mat.shape[1]
      n == sd_dist_mat.shape[2]
  IN  /\ sd_pc = "loop"
      /\ sd_i < m
      /\ sd_dist' = FillCell(sd_dist, sd_dist_mat, sd_i, sd_j)
      /\ sd_reads' = Predecessors(sd_i, sd_j)
      /\ sd_writes' = Append(sd_writes, <<sd_i, sd_j>>)
      /\ IF sd_j + 1 < n
           THEN sd_i' = sd_i /\ sd_j' = sd_j + 1
           ELSE sd_i' = sd_i + 1 /\ sd_j' = 0
      /\ UNCHANGED <<sd_dist_mat, sd_pc, sd_ret, ld_vars, lm_vars>>

\* dist = dist[-1, -1]; return dist
SDReturn ==
  LET m == sd_dist_mat.shape[1]
      n == sd_dist_mat.shape[2]
  IN  /\ sd_pc = "loop"
      /\ sd_i >= m
      /\ sd_ret' = Get2(sd_dist, m - 1, n - 1)
      /\ sd_pc' = "done"
      /\ UNCHANGED <<sd_dist_mat, sd_dist, sd_i, sd_j, sd_reads, sd_writes, ld_vars, lm_vars>>

SDNext == SDEnter \/ SDFill \/ SDReturn

SpecSD == SDInit /\ [][SDNext]_vars

\* ------------------------------------------------- local-distance calls
\* Pairs (x, y) of arrays within a budget of entries: sequences [m, d], [n, d],
\* sequence collections [M, m, d], [N, n, d] (equal d), and pairs of any
\* other ranks.
LDShapePair(sx, sy) ==
  LET rx == Len(sx)
      ry == Len(sy)
  IN  /\ Size(sx) + Size(sy) <= MaxTotal
      /\ (rx = ry /\ rx \in {2, 3}) => sx[rx] = sy[ry]

LDInit ==
  /\ \E rx \in 1 .. MaxRank, ry \in 1 .. MaxRank :
       \E sx \in ShapesOf(rx, MaxTotal - 1), sy \in ShapesOf(ry, MaxTotal - 1) :
         /\ LDShapePair(sx, sy)
         /\ ld_x \in ArraysOf(sx, EntryValues)
         /\ ld_y \in ArraysOf(sy, EntryValues)
  /\ ld_call = "idle"
  /\ ld_out = Returned(NoArray)
  /\ ld_stage = NoArray
  /\ SDIdle
  /\ LMIdle

LDRanks == <<Len(ld_x.shape), Len(ld_y.shape)>>

LDMeta ==
  /\ ld_call = "idle" /\ LDRanks = <<2, 2>>
  /\ ld_call' = "meta_local_dist"
  /\ ld_out' = Returned(meta_local_dist(ld_x, ld_y))
  /\ UNCHANGED <<ld_x, ld_y, ld_stage, sd_vars, lm_vars>>

LDSerial ==
  /\ ld_call = "idle" /\ LDRanks = <<3, 3>>
  /\ ld_call' = "serial_local_dist"
  /\ ld_out' = Returned(serial_local_dist(ld_x, ld_y))
  /\ UNCHANGED <<ld_x, ld_y, ld_stage, sd_vars, lm_vars>>

\* ld_stage keeps the value of dist_mat after the transpose
LDParallel ==
  /\ ld_call = "idle" /\ LDRanks = <<3, 3>>
  /\ ld_call' = "parallel_local_dist"
  /\ ld_stage' = PermutedCosts(ld_x, ld_y)
  /\ ld_out' = Returned(parallel_local_dist(ld_x, ld_y))
  /\ UNCHANGED <<ld_x, ld_y, sd_vars, lm_vars>>

LDLocal ==
  /\ ld_call = "idle"
  /\ ld_call' = "local_dist"
  /\ ld_out' = local_dist(ld_x, ld_y)
  /\ UNCHANGED <<ld_x, ld_y, ld_stage, sd_vars, lm_vars>>

LDNext == LDMeta \/ LDSerial \/ LDParallel \/ LDLocal

SpecLD == LDInit /\ [][LDNext]_vars

\* ------------------------------------------ low_memory_matrix_op, by part
LMToSplit == IF lm_split_x_or_y = "x" THEN lm_x ELSE lm_y

LMAxisLength == LMToSplit.shape[lm_axis + 1]

\* Operands [M, d] and [N, d], a function, the operand and axis to split, and
\* a split count from below 1 to above the length of the split axis.
LMInit ==
  /\ \E sx \in ShapesOf(2, MaxOperands - 1), sy \in ShapesOf(2, MaxOperands - 1) :
       /\ Size(sx) + Size(sy) <= MaxOperands
       /\ sx[2] = sy[2]
       /\ lm_x \in ArraysOf(sx, EntryValues)
       /\ lm_y \in ArraysOf(sy, EntryValues)
  /\ lm_func \in Funcs
  /\ lm_split_x_or_y \in {"x", "y"}
  /\ lm_axis \in {0, 1}
  /\ lm_num_splits \in -1 .. (LMAxisLength + 1)
  /\ lm_pc = "call"
  /\ lm_parts = << >>
  /\ lm_i = 0
  /\ lm_mat = << >>
  /\ lm_calls = 0
  /\ lm_ret = Returned(NoArray)
  /\ SDIdle
  /\ LDIdle

\* mat = []; to_split = ...; np.array_split(to_split, num_splits, axis=axis)
LMSplit ==
  LET split == array_split(LMToSplit, lm_num_splits, lm_axis)
  IN  /\ lm_pc = "call"
      /\ IF split.raised # ""
           THEN /\ lm_pc' = "raised"
                /\ lm_ret' = Raised(split.raised)
                /\ lm_parts' = lm_parts
           ELSE /\ lm_pc' = "loop"
                /\ lm_parts' = split.parts
                /\ lm_ret' = lm_ret
      /\ UNCHANGED <<lm_args, lm_i, lm_mat, lm_calls, sd_vars, ld_vars>>

\* one iteration of the loop: part_mat = func(...); mat.append(part_mat)
LMPart ==
  LET part == lm_parts[lm_i + 1]
      part_mat == IF lm_split_x_or_y = "x" THEN ApplyFunc(lm_func, part, lm_y)
                  ELSE ApplyFunc(lm_func, lm_x, part)
  IN  /\ lm_pc = "loop"
      /\ lm_i < Len(lm_parts)
      /\ lm_calls' = lm_calls + 1
      /\ IF part_mat.raised # ""
           THEN /\ lm_pc' = "raised"
                /\ lm_ret' = Raised(part_mat.raised)
                /\ UNCHANGED <<lm_mat, lm_i>>
           ELSE /\ lm_mat' = Append(lm_mat, part_mat.value)
                /\ lm_i' = lm_i + 1
                /\ UNCHANGED <<lm_pc, lm_ret>>
      /\ UNCHANGED <<lm_args, lm_parts, sd_vars, ld_vars>>

\* mat = np.concatenate(mat, axis=axis_to_concat); return mat
LMConcat ==
  LET mat == concatenate(lm_mat, AxisToConcat(lm_split_x_or_y))
  IN  /\ lm_pc = "loop"
      /\ lm_i >= Len(lm_parts)
      /\ lm_ret' = mat
      /\ lm_pc' = IF mat.raised # "" THEN "raised" ELSE "returned"
      /\ UNCHANGED <<lm_args, lm_parts, lm_i, lm_mat, lm_calls, sd_vars, ld_vars>>

LMNext == LMSplit \/ LMPart \/ LMConcat

SpecLM == LMInit /\ [][LMNext]_vars

\* ------------------------------------------------ reference: path costs
\* Every monotonic path of an [m, n] grid as its sequence of moves.
MoveSeqs(m, n) ==
  { s \in [1 .. (m + n - 2) -> {"down", "right"}] :
      Cardinality({ k \in DOMAIN s : s[k] = "down" }) = m - 1 }

\* The cell a path stands on after its first k moves.
CellAfter(s, k) ==
  << Cardinality({ q \in 1 .. k : s[q] = "down" }),
     Cardinality({ q \in 1 .. k : s[q] = "right" }) >>

RECURSIVE PathCostUpTo(_, _, _)
PathCostUpTo(c, s, k) ==
  c.at[CellAfter(s, k)] + (IF k = 0 THEN 0 ELSE PathCostUpTo(c, s, k - 1))

PathCost(c, s) == PathCostUpTo(c, s, Len(s))

MinPathCost(c) ==
  SetMin({ PathCost(c, s) : s \in MoveSeqs(c.shape[1], c.shape[2]) })

\* The 2-D slice cost[:, :, b] of a batched cost tensor.
BatchSlice(a, b) ==
  MkArray(SubSeq(a.shape, 1, 2), [idx \in Indices(SubSeq(a.shape, 1, 2)) |-> a.at[idx \o b]])

IsConstant(a, c) == \A idx \in DOMAIN a.at : a.at[idx] = c

SDRank == Len(sd_dist_mat.shape)
SDm == sd_dist_mat.shape[1]
SDn == sd_dist_mat.shape[2]

\* ------------------------------------------------- claims: shortest_dist
\* C1: on a 2-D cost matrix shortest_dist returns the minimum, over all
\* down/right paths from (0,0) to (m-1,n-1), of the summed cell costs.
C1_MinOverPaths ==
  (sd_pc = "done" /\ SDRank = 2) =>
     /\ sd_ret.shape = << >>
     /\ sd_ret.at[<< >>] = MinPathCost(sd_dist_mat)

C1_Witness ==
  /\ sd_pc = "done" /\ SDRank = 2 /\ SDm >= 2 /\ SDn >= 3
  /\ sd_ret.at[<< >>] = 1
  /\ \E s \in MoveSeqs(SDm, SDn) : PathCost(sd_dist_mat, s) > 2

\* C7: on a tensor [m, n, *extra] the result has shape [*extra] and its entry
\* at batch index b is shortest_dist of the 2-D slice cost[:, :, b] alone.
C7_SlicesIndependent ==
  (sd_pc = "done" /\ SDRank > 2) =>
     /\ sd_ret.shape = Drop(sd_dist_mat.shape, 2)
     /\ \A b \in Indices(Drop(sd_dist_mat.shape, 2)) :
           /\ sd_ret.at[b] = shortest_dist(BatchSlice(sd_dist_mat, b)).at[<< >>]
           /\ sd_ret.at[b] = MinPathCost(BatchSlice(sd_dist_mat, b))

C7_Witness ==
  /\ sd_pc = "done" /\ sd_dist_mat.shape = <<2, 2, 2>>
  /\ sd_ret.at[<<0>>] = 1 /\ sd_ret.at[<<1>>] = 3

\* C8: on the [m, n] matrix whose every entry is c the result is (m+n-1)*c.
C8_ConstantMatrix ==
  \A c \in 0 .. MaxFill :
    (sd_pc = "done" /\ SDRank = 2 /\ IsConstant(sd_dist_mat, c)) =>
       sd_ret.at[<< >>] = (SDm + SDn - 1) * c

C8_Witness ==
  /\ sd_pc = "done" /\ sd_dist_mat.shape = <<2, 3>>
  /\ IsConstant(sd_dist_mat, 2) /\ sd_ret.at[<< >>] = 8

\* C10: the fill loop writes the cells in row-major order, each once; a write
\* reads only already written cells among (i-1, j) and (i, j-1), never
\* (i-1, j-1); written cells keep their value, the input is never modified,
\* and the value returned is the accumulator at (m-1, n-1).
C10_State ==
  /\ \A k \in DOMAIN sd_writes : sd_writes[k] = <<(k - 1) \div SDn, (k - 1) % SDn>>
  /\ sd_pc = "done" => Len(sd_writes) = SDm * SDn
  /\ sd_writes # << >> =>
       LET cell == sd_writes[Len(sd_writes)]
           before == { sd_writes[k] : k \in 1 .. (Len(sd_writes) - 1) }
       IN  \A r \in DOMAIN sd_reads :
             /\ sd_reads[r] \in { <<cell[1] - 1, cell[2]>>, <<cell[1], cell[2] - 1>> }
             /\ sd_reads[r] \in before
  /\ sd_pc = "done" => sd_ret = Get2(sd_dist, SDm - 1, SDn - 1)

C10_Step ==
  /\ sd_dist_mat' = sd_dist_mat
  /\ \A k \in DOMAIN sd_writes :
        Get2(sd_dist', sd_writes[k][1], sd_writes[k][2])
          = Get2(sd_dist, sd_writes[k][1], sd_writes[k][2])
  /\ Len(sd_writes') <= Len(sd_writes) + 1

\* C10: row-major single writes that read only finished neighbours (state
\* part), with written cells and the input left unchanged (step part).
C10_FillOrder == [] C10_State /\ [][C10_Step]_vars

C10_Witness ==
  /\ sd_pc = "done" /\ sd_dist_mat.shape = <<2, 3>>
  /\ sd_reads = << <<0, 2>>, <<1, 1>> >>
  /\ Len(sd_writes) = 6

\* ----------------------------------------------- claims: local distances
\* C3: meta_local_dist(x, y) is one scalar, the minimum down/right path cost
\* from (0,0) to (m-1,n-1) over the [m, n] matrix of squashed euclidean
\* distances between the rows of x and the rows of y.
C3_MetaIsAlignment ==
  ld_call = "meta_local_dist" =>
     /\ ld_out.value.shape = << >>
     /\ ld_out.value.at[<< >>] = MinPathCost(LocalCostMatrix(ld_x, ld_y))
     /\ ld_out.value = shortest_dist(LocalCostMatrix(ld_x, ld_y))

\* C2: parallel_local_dist(x, y) has shape [M, N] and its entry [i, j] equals
\* serial_local_dist(x, y)[i, j], which is meta_local_dist(x[i], y[j]).
C2_ParallelEqualsSerial ==
  ld_call = "parallel_local_dist" =>
     /\ ld_out.value.shape = <<ld_x.shape[1], ld_y.shape[1]>>
     /\ \A i \in Range(ld_x.shape[1]), j \in Range(ld_y.shape[1]) :
          /\ ld_out.value.at[<<i, j>>] = serial_local_dist(ld_x, ld_y).at[<<i, j>>]
          /\ ld_out.value.at[<<i, j>>]
               = meta_local_dist(Get1(ld_x, i), Get1(ld_y, j)).at[<< >>]

\* C9: after flatten, reshape to [M, m, N, n] and permutation to [m, n, M, N]
\* the entry [a, b, i, j] is the local cost between descriptor a of object i of
\* x and descriptor b of object j of y (flat row i*m + a, flat column j*n + b).
C9_PermutedIndexing ==
  ld_call = "parallel_local_dist" =>
     LET M == ld_x.shape[1]
         m == ld_x.shape[2]
         d == ld_x.shape[3]
         N == ld_y.shape[1]
         n == ld_y.shape[2]
         flat == LocalCostMatrix(Reshape(ld_x, <<M * m, d>>), Reshape(ld_y, <<N * n, d>>))
     IN  /\ ld_stage.shape = <<m, n, M, N>>
         /\ \A a \in Range(m), b \in Range(n), i \in Range(M), j \in Range(N) :
              /\ ld_stage.at[<<a, b, i, j>>]
                   = LocalCostMatrix(Get1(ld_x, i), Get1(ld_y, j)).at[<<a, b>>]
              /\ ld_stage.at[<<a, b, i, j>>] = flat.at[<<i * m + a, j * n + b>>]

C9_Witness ==
  /\ ld_call = "parallel_local_dist"
  /\ ld_x.shape = <<2, 2, 1>> /\ ld_y.shape = <<1, 2, 1>>
  /\ ld_stage.at[<<1, 0, 0, 0>>] # ld_stage.at[<<0, 0, 1, 0>>]
  /\ ld_stage.at[<<0, 1, 0, 0>>] # ld_stage.at[<<0, 0, 0, 0>>]

\* C6: local_dist returns meta_local_dist(x, y) when both inputs are 2-D,
\* parallel_local_dist(x, y) when both are 3-D, and fails with a not-supported
\* error, computing no distance, for every other pair of ranks.
C6_Dispatch ==
  ld_call = "local_dist" =>
     IF LDRanks = <<2, 2>>
       THEN ld_out = Returned(meta_local_dist(ld_x, ld_y)) /\ ld_out.value.shape = << >>
     ELSE IF LDRanks = <<3, 3>>
       THEN ld_out = Returned(parallel_local_dist(ld_x, ld_y))
     ELSE ld_out.raised = "NotImplementedError" /\ ld_out.value = NoArray

C6_Witness ==
  /\ ld_call = "local_dist" /\ LDRanks = <<2, 3>>
  /\ ld_out.raised = "NotImplementedError"

\* --------------------------------------------- claims: chunked evaluation
LMDone == lm_pc \in {"returned", "raised"}

LMValidSplit == 1 <= lm_num_splits /\ lm_num_splits <= LMAxisLength

\* C4 as stated: for every f, operand choice, axis and split count k with
\* 1 <= k <= length of the split axis, the result equals f(X, Y).
C4_AnyFuncAnyAxis ==
  (LMDone /\ LMValidSplit) =>
     /\ lm_pc = "returned"
     /\ lm_ret = ApplyFunc(lm_func, lm_x, lm_y)

\* C4 amended: with 1 <= k <= length of the split axis, the result equals
\* f(X, Y) when k = 1, and for k > 1 when the split axis is axis 0 (the rows,
\* which index the output) and entry [i, j] of f depends only on row i of X
\* and row j of Y.
C4_RowwiseChunks ==
  (LMDone /\ LMValidSplit
     /\ (lm_num_splits = 1 \/ (lm_axis = 0 /\ lm_func \in PairwiseFuncs))) =>
     /\ lm_pc = "returned"
     /\ lm_calls = lm_num_splits
     /\ lm_ret = ApplyFunc(lm_func, lm_x, lm_y)

C4_Witness ==
  /\ lm_pc = "returned" /\ lm_split_x_or_y = "x" /\ lm_axis = 0
  /\ lm_func = "compute_dist"
  /\ lm_x.shape = <<3, 1>> /\ lm_num_splits = 2 /\ lm_calls = 2
  /\ lm_mat[1].shape[1] = 2 /\ lm_mat[2].shape[1] = 1
  /\ lm_ret.value.at[<<0, 0>>] # lm_ret.value.at[<<2, 0>>]

\* C5: a split count below 1 or above the length of the split axis ends in an
\* error before f is invoked on any part, and no matrix is returned.
C5_InvalidSplitRejected ==
  (LMDone /\ ~LMValidSplit) =>
     /\ lm_pc = "raised"
     /\ lm_calls = 0
     /\ lm_ret.value = NoArray

====
